---- MODULE Spec2Model ----
(***************************************************************************)
(* The bid-log pipeline of facebook_notebook.ipynb as a state machine.     *)
(* One action per notebook cell (or per loop iteration of a cell); the     *)
(* data frames are sequences of rows, a row is a function from column      *)
(* names to values.                                                        *)
(*                                                                         *)
(* Text values are sequences of one-character strings, so that removing    *)
(* spaces, tagging, joining and splitting are computed and not assumed.    *)
(* A missing text value is NA.  Numbers that pandas holds as float64 are   *)
(* exact rationals [n, d] in lowest terms with d > 0; NaN is the rational  *)
(* with d = 0.  Rounding of float64 is outside this model.                 *)
(*                                                                         *)
(* SpecAgg and SpecStat run cells 3 to 9 (the aggregation of the bid log), *)
(* SpecJoin runs cells 10 to 15 (join, imputation, split, scaling) and     *)
(* Spec runs cells 10 to 20 to the written submission.  What the libraries *)
(* compute from the data alone (the chi2 scores, the fitted classifier) is *)
(* left open and drawn from small families.                                *)
(***************************************************************************)
EXTENDS Integers, Sequences, FiniteSets, TLC

\* ------------------------------------------------------------------ bounds
MaxBids == 3
MaxTime == 2
StatMaxPer == 3
JoinMaxPer == 2
RunMaxPer == 2

\* ------------------------------------------------------- text and numbers
NA == <<"NaN">>

NaN == [n |-> 0, d |-> 0]

IsNaN(x) == x.d = 0

Abs(i) == IF i < 0 THEN -i ELSE i

RECURSIVE GCD(_, _)
GCD(a, b) == IF b = 0 THEN a ELSE GCD(b, a % b)

\* the rational n/d (d > 0) in lowest terms
Rat(n, d) == LET g == GCD(Abs(n), d) IN [n |-> n \div g, d |-> d \div g]

Int2Rat(i) == [n |-> i, d |-> 1]

RAdd(x, y) == Rat(x.n * y.d + y.n * x.d, x.d * y.d)

RSub(x, y) == Rat(x.n * y.d - y.n * x.d, x.d * y.d)

RDivInt(x, k) == Rat(x.n, x.d * k)

RLeq(x, y) == x.n * y.d <= y.n * x.d

RECURSIVE SeqSum(_)
SeqSum(s) == IF s = <<>> THEN Int2Rat(0) ELSE RAdd(Head(s), SeqSum(Tail(s)))

\* Series.mean(): NaN entries are skipped; the mean of nothing is NaN
SeriesMean(s) ==
    LET valid == SelectSeq(s, LAMBDA x : ~IsNaN(x))
    IN  IF valid = <<>> THEN NaN ELSE RDivInt(SeqSum(valid), Len(valid))

\* Series.fillna(v): a NaN fill value leaves the NaN entries as they are
SeriesFillna(s, v) == [i \in DOMAIN s |-> IF IsNaN(s[i]) THEN v ELSE s[i]]

Digit == <<"0", "1", "2", "3", "4", "5", "6", "7", "8", "9">>

RECURSIVE NatStr(_)
NatStr(i) == IF i < 10 THEN <<Digit[i + 1]>>
             ELSE NatStr(i \div 10) \o <<Digit[(i % 10) + 1]>>

\* str() of a float64 holding a whole number, and of NaN
FloatStr(x) == IF IsNaN(x) THEN <<"n", "a", "n">>
               ELSE IF x.n < 0 THEN <<"-">> \o NatStr(0 - x.n) \o <<".", "0">>
               ELSE NatStr(x.n) \o <<".", "0">>

RECURSIVE JoinStr(_, _)
JoinStr(sep, strs) ==
    IF strs = <<>> THEN <<>>
    ELSE IF Len(strs) = 1 THEN strs[1]
    ELSE strs[1] \o sep \o JoinStr(sep, Tail(strs))

\* x.split(' ')
RECURSIVE SplitFrom(_, _)
SplitFrom(cur, rest) ==
    IF rest = <<>> THEN <<cur>>
    ELSE IF Head(rest) = " " THEN <<cur>> \o SplitFrom(<<>>, Tail(rest))
    ELSE SplitFrom(Append(cur, Head(rest)), Tail(rest))

tokens(x) == SplitFrom(<<>>, x)

\* ------------------------------------------------------------- the columns
RawCols == {"auction", "merchandise", "device", "country", "ip", "url"}

text_cols == <<"auction", "merchandise", "device", "timediff", "country", "ip", "url">>

ColChars(var) ==
    CASE var = "auction"     -> <<"a", "u", "c", "t", "i", "o", "n">>
      [] var = "merchandise" -> <<"m", "e", "r", "c", "h", "a", "n", "d", "i", "s", "e">>
      [] var = "device"      -> <<"d", "e", "v", "i", "c", "e">>
      [] var = "timediff"    -> <<"t", "i", "m", "e", "d", "i", "f", "f">>
      [] var = "country"     -> <<"c", "o", "u", "n", "t", "r", "y">>
      [] var = "ip"          -> <<"i", "p">>
      [] var = "url"         -> <<"u", "r", "l">>

text_str(var) ==
    CASE var = "auction"     -> "auction_text"
      [] var = "merchandise" -> "merchandise_text"
      [] var = "device"      -> "device_text"
      [] var = "timediff"    -> "timediff_text"
      [] var = "country"     -> "country_text"
      [] var = "ip"          -> "ip_text"
      [] var = "url"         -> "url_text"

count_str(var) ==
    CASE var = "auction"     -> "auction_nunique_num"
      [] var = "merchandise" -> "merchandise_nunique_num"
      [] var = "device"      -> "device_nunique_num"
      [] var = "timediff"    -> "timediff_nunique_num"
      [] var = "country"     -> "country_nunique_num"
      [] var = "ip"          -> "ip_nunique_num"
      [] var = "url"         -> "url_nunique_num"

quantiles == <<1, 2, 3, 4, 6, 7, 8, 9>>

q_string(k) ==
    CASE k = 1 -> "diff_quantile_num_0_1"
      [] k = 2 -> "diff_quantile_num_0_2"
      [] k = 3 -> "diff_quantile_num_0_3"
      [] k = 4 -> "diff_quantile_num_0_4"
      [] k = 6 -> "diff_quantile_num_0_6"
      [] k = 7 -> "diff_quantile_num_0_7"
      [] k = 8 -> "diff_quantile_num_0_8"
      [] k = 9 -> "diff_quantile_num_0_9"

\* ------------------------------------------------------------------- state
VARIABLES
    pc,              \* the cell (or loop iteration) that runs next
    loop_i,          \* position in the loop of the running cell
    bids_csv,        \* data/bids.csv as read
    train_csv,       \* data/train.csv as read
    test_csv,        \* data/test.csv as read
    sample_csv,      \* submissions/sampleSubmission.csv as read
    df_bids,
    df_bids_sorted,
    bids,
    df_combo,
    sample,
    test_dat,
    printed,         \* what cell 13 prints
    train_dat,
    y,
    xtrain,
    xtest,
    sc,
    feats_25,        \* the fitted selector: its scores_ and its support mask
    clf,             \* the classifier: its seed, and the rule its fit learns
    preds_mat,
    fit_calls,       \* the calls of clf.fit so far: the seed and the arguments
    submission,      \* submissions/facebook_submission.csv as written
    to_csv_calls     \* how often the output file has been written

files == <<bids_csv, train_csv, test_csv, sample_csv>>

aggVars == <<df_bids, df_bids_sorted, bids>>

joinVars == <<df_combo, sample, test_dat, printed, train_dat, y, xtrain, xtest, sc>>

modelVars == <<feats_25, clf, preds_mat, fit_calls, submission, to_csv_calls>>

vars == <<pc, loop_i, files, aggVars, joinVars, modelVars>>

\* ---------------------------------------------------------- cell 3: spaces
\* replace without regex = True: only a value that is ' ' as a whole
RemoveSpacesWholeValue(s) == IF s = <<" ">> THEN <<>> ELSE s

RemoveSpaces(s) == IF s = NA THEN NA ELSE SelectSeq(s, LAMBDA c : c # " ")

ReplaceSpaces(df) ==
    [i \in DOMAIN df |->
        [c \in DOMAIN df[i] |->
            IF c \in RawCols THEN RemoveSpaces(df[i][c]) ELSE df[i][c]]]

\* ------------------------------------------------------------ cell 4: sort
\* a sorts no later than b on the keys ['bidder_id', 'time'], both ascending
RowLeq(a, b) ==
    \/ a.bidder_id < b.bidder_id
    \/ a.bidder_id = b.bidder_id /\ a.time <= b.time

RECURSIVE InsertRow(_, _)
InsertRow(x, s) ==
    IF s = <<>> THEN <<x>>
    ELSE IF RowLeq(Head(s), x) THEN <<Head(s)>> \o InsertRow(x, Tail(s))
    ELSE <<x>> \o s

RECURSIVE SortRows(_, _)
SortRows(done, rest) ==
    IF rest = <<>> THEN done
    ELSE SortRows(InsertRow(Head(rest), done), Tail(rest))

\* DataFrame.sort on two keys is a lexsort: rows with equal keys keep their order
SortBidsDescTime(df) ==
    LET neg == [i \in DOMAIN df |-> [df[i] EXCEPT !.time = 0 - df[i].time]]
        s   == SortRows(<<>>, neg)
    IN  [i \in DOMAIN s |-> [s[i] EXCEPT !.time = 0 - s[i].time]]

SortBids(df) == SortRows(<<>>, df)

\* ------------------------------------------------- cells 5, 6: bids, counts
RECURSIVE Unique(_)
Unique(s) ==
    IF s = <<>> THEN <<>>
    ELSE LET u == Unique(SubSeq(s, 1, Len(s) - 1))
         IN  IF \E i \in DOMAIN u : u[i] = s[Len(s)] THEN u ELSE Append(u, s[Len(s)])

Column(df, c) == [i \in DOMAIN df |-> df[i][c]]

\* the rows of one group, in the frame's order
Group(df, b) == SelectSeq(df, LAMBDA r : r.bidder_id = b)

InitBidsFrame(df) ==
    LET u == Unique(Column(df, "bidder_id"))
    IN  [i \in DOMAIN u |-> [bidder_id |-> u[i]]]

BidderSet(df) == {df[i].bidder_id : i \in DOMAIN df}

\* bids[col] = series: the series is aligned on the bidder_id index
SetColumn(frame, col, series) ==
    [i \in DOMAIN frame |-> frame[i] @@ (col :> series[frame[i].bidder_id])]

AuctionCount(df, b) == Int2Rat(Len(Group(df, b)))

\* --------------------------------------------------------- cell 7: timediff
\* groupby('bidder_id')['time'].diff(): the difference to the previous row of
\* the same group, NaN on the group's first row
TimeDiffAt(df, k) ==
    LET prev == {j \in 1..(k - 1) : df[j].bidder_id = df[k].bidder_id}
    IN  IF prev = {} THEN NaN
        ELSE LET last == CHOOSE j \in prev : \A i \in prev : i <= j
             IN  Int2Rat(df[k].time - df[last].time)

AddTimeDiff(df) ==
    [k \in DOMAIN df |->
        df[k] @@ ("timediff_num" :> TimeDiffAt(df, k))
              @@ ("timediff" :> FloatStr(TimeDiffAt(df, k)))]

\* ------------------------------------------------ cell 8: text aggregation
Fillna(s) == IF s = NA THEN <<>> ELSE s

\* df_bids_sorted[var] = var + "_" + df_bids_sorted[var].fillna("")
TagColumn(df, var) ==
    [k \in DOMAIN df |->
        [df[k] EXCEPT ![var] = ColChars(var) \o <<"_">> \o Fillna(df[k][var])]]

JoinGroup(df, var, b) == JoinStr(<<" ">>, Column(Group(df, b), var))

Nunique(df, var, b) ==
    LET g == Group(df, b)
    IN  Int2Rat(Cardinality({g[i][var] : i \in DOMAIN g} \ {NA}))

AggregateColumn(frame, df, var) ==
    LET withText == SetColumn(frame, text_str(var), [b \in BidderSet(df) |-> JoinGroup(df, var, b)])
    IN  SetColumn(withText, count_str(var), [b \in BidderSet(df) |-> Nunique(df, var, b)])

\* ------------------------------------------------- cell 9: diff statistics
GroupKeys(df) == Unique(Column(df, "bidder_id"))

RECURSIVE InsertRat(_, _)
InsertRat(x, s) ==
    IF s = <<>> THEN <<x>>
    ELSE IF RLeq(Head(s), x) THEN <<Head(s)>> \o InsertRat(x, Tail(s))
    ELSE <<x>> \o s

RECURSIVE SortRat(_)
SortRat(s) == IF s = <<>> THEN <<>> ELSE InsertRat(Head(s), SortRat(Tail(s)))

\* the statistics of a sequence v of numbers: NaN entries are skipped, and the
\* statistic of nothing is NaN
Valid(v) == SortRat(SelectSeq(v, LAMBDA x : ~IsNaN(x)))

SeqMax(v) == LET a == Valid(v) IN IF a = <<>> THEN NaN ELSE a[Len(a)]

SeqMin(v) == LET a == Valid(v) IN IF a = <<>> THEN NaN ELSE a[1]

\* quantile k/10 with linear interpolation between the two nearest ranks
SeqQuantile(v, k) ==
    LET a   == Valid(v)
        pos == k * (Len(a) - 1)
        lo  == (pos \div 10) + 1
        rem == pos % 10
    IN  IF a = <<>> THEN NaN
        ELSE IF rem = 0 THEN a[lo]
        ELSE RAdd(a[lo], RDivInt(Rat(rem * RSub(a[lo + 1], a[lo]).n,
                                     RSub(a[lo + 1], a[lo]).d), 10))

GroupValues(df, col, b) == Column(Group(df, b), col)

GroupMax(df, col, b) == SeqMax(GroupValues(df, col, b))

GroupMin(df, col, b) == SeqMin(GroupValues(df, col, b))

GroupMean(df, col, b) == SeriesMean(GroupValues(df, col, b))

GroupQuantile(df, col, b, k) == SeqQuantile(GroupValues(df, col, b), k)

GroupMedian(df, col, b) == GroupQuantile(df, col, b, 5)

TimeCol(df) == [k \in DOMAIN df |-> [df[k] EXCEPT !.time = Int2Rat(df[k].time)]]

\* one value per group, in the order of the group keys
GroupSeries(df, stat) ==
    LET keys == GroupKeys(df) IN [i \in DOMAIN keys |-> stat[keys[i]]]

\* s.fillna(s.mean())
FillMean(s) == SeriesFillna(s, SeriesMean(s))

SeriesAt(df, s, b) ==
    LET keys == GroupKeys(df)
    IN  s[CHOOSE i \in DOMAIN keys : keys[i] = b]

SetSeries(frame, col, df, s) == SetColumn(frame, col, [b \in BidderSet(df) |-> SeriesAt(df, s, b)])

max_diff(df) == FillMean(GroupSeries(df, [b \in BidderSet(df) |-> GroupMax(df, "timediff_num", b)]))

\* line 204 takes .max() again
min_diff(df) == FillMean(GroupSeries(df, [b \in BidderSet(df) |-> GroupMax(df, "timediff_num", b)]))

range_diff(df) ==
    LET mx == max_diff(df)
        mn == min_diff(df)
    IN  [i \in DOMAIN mx |->
            IF IsNaN(mx[i]) \/ IsNaN(mn[i]) THEN NaN ELSE RSub(mx[i], mn[i])]

mean_diff(df) == FillMean(GroupSeries(df, [b \in BidderSet(df) |-> GroupMean(df, "timediff_num", b)]))

median_diff(df) ==
    FillMean(GroupSeries(df, [b \in BidderSet(df) |-> GroupMedian(df, "timediff_num", b)]))

q_temp(df, k) ==
    FillMean(GroupSeries(df, [b \in BidderSet(df) |-> GroupQuantile(df, "timediff_num", b, k)]))

DiffStats(frame, df) ==
    LET t  == TimeCol(df)
        f1 == SetSeries(frame, "maxtime_num", df,
                        GroupSeries(df, [b \in BidderSet(df) |-> GroupMax(t, "time", b)]))
        f2 == SetSeries(f1, "mintime_num", df,
                        GroupSeries(df, [b \in BidderSet(df) |-> GroupMin(t, "time", b)]))
        f3 == SetSeries(f2, "maxdiff_num", df, max_diff(df))
        f4 == SetSeries(f3, "mindiff_num", df, min_diff(df))
        f5 == SetSeries(f4, "rangediff_num", df, range_diff(df))
        f6 == SetSeries(f5, "meandiff_num", df, mean_diff(df))
    IN  SetSeries(f6, "mediandiff_num", df, median_diff(df))

\* the whole of cells 3 to 9 on one bid log
RECURSIVE TextLoop(_, _, _)
TextLoop(frame, df, i) ==
    IF i > Len(text_cols) THEN frame
    ELSE LET tagged == TagColumn(df, text_cols[i])
         IN  TextLoop(AggregateColumn(frame, tagged, text_cols[i]), tagged, i + 1)

RECURSIVE QuantileLoop(_, _, _)
QuantileLoop(frame, df, i) ==
    IF i > Len(quantiles) THEN frame
    ELSE QuantileLoop(SetSeries(frame, q_string(quantiles[i]), df,
                                q_temp(df, quantiles[i])), df, i + 1)

RECURSIVE TagLoop(_, _)
TagLoop(df, i) ==
    IF i > Len(text_cols) THEN df ELSE TagLoop(TagColumn(df, text_cols[i]), i + 1)

\* df_bids_sorted after cell 8
TextLoopFrame(df) == TagLoop(df, 1)

BidsOf(log) ==
    LET sorted == AddTimeDiff(SortBids(ReplaceSpaces(log)))
        counted == SetColumn(InitBidsFrame(sorted), "auction_count_num",
                             [b \in BidderSet(sorted) |-> AuctionCount(sorted, b)])
    IN  QuantileLoop(DiffStats(TextLoop(counted, sorted, 1), sorted), sorted, 1)

\* ----------------------------------------------------------- cell 10: join
TagChars(name) ==
    CASE name = "address" -> <<"a", "d", "d", "r", "e", "s", "s">>
      [] name = "account" -> <<"a", "c", "c", "o", "u", "n", "t">>

\* df_train.append(df_test): the test roster has no outcome column
AppendRosters(train, test) ==
    train \o [i \in DOMAIN test |-> test[i] @@ ("outcome" :> NaN)]

AddRosterText(df) ==
    [i \in DOMAIN df |->
        df[i] @@ ("address_text" :> TagChars("address") \o <<"_">> \o Fillna(df[i].address))
              @@ ("account_text" :> TagChars("account") \o <<"_">>
                                       \o Fillna(df[i].payment_account))]

\* the columns of a frame matched by re.compile('num').search, in column order
num_cols ==
    <<"auction_count_num", "auction_nunique_num", "merchandise_nunique_num",
      "device_nunique_num", "timediff_nunique_num", "country_nunique_num",
      "ip_nunique_num", "url_nunique_num", "maxtime_num", "mintime_num",
      "maxdiff_num", "mindiff_num", "rangediff_num", "meandiff_num",
      "mediandiff_num", "diff_quantile_num_0_1", "diff_quantile_num_0_2",
      "diff_quantile_num_0_3", "diff_quantile_num_0_4", "diff_quantile_num_0_6",
      "diff_quantile_num_0_7", "diff_quantile_num_0_8", "diff_quantile_num_0_9">>

\* the columns matched by re.compile('text').search, in column order
combo_text_cols ==
    <<"address_text", "account_text", "auction_text", "merchandise_text",
      "device_text", "timediff_text", "country_text", "ip_text", "url_text">>

Range(s) == {s[i] : i \in DOMAIN s}

\* the right-hand columns of a left row without a match
MissingRow(right) ==
    [c \in DOMAIN right[1] \ {"bidder_id"} |->
        IF c \in Range(num_cols) THEN NaN ELSE NA]

RECURSIVE Flatten(_)
Flatten(ss) == IF ss = <<>> THEN <<>> ELSE Head(ss) \o Flatten(Tail(ss))

\* merge(how = 'left') on bidder_id: the left rows in their order, each once per
\* matching right row, and once with missing right-hand columns without a match
MergeLeft(left, right) ==
    Flatten([i \in DOMAIN left |->
        LET m == SelectSeq(right, LAMBDA r : r.bidder_id = left[i].bidder_id)
        IN  IF m = <<>> THEN <<left[i] @@ MissingRow(right)>>
            ELSE [k \in DOMAIN m |-> left[i] @@ m[k]]])

\* --------------------------------------------------------- cell 12: impute
ImputeValueZero(df, col) == Int2Rat(0)

\* df_combo[col].mean()
ImputeValue(df, col) == SeriesMean(Column(df, col))

Impute(df) ==
    [i \in DOMAIN df |->
        [c \in DOMAIN df[i] |->
            IF c \in Range(num_cols)
               THEN IF IsNaN(df[i][c]) THEN ImputeValue(df, c) ELSE df[i][c]
               ELSE IF c \in Range(combo_text_cols) THEN Fillna(df[i][c])
               ELSE df[i][c]]]

\* ------------------------------------------------ cells 13, 14: the split
TestSplitByLabel(df, template) == SelectSeq(df, LAMBDA r : IsNaN(r.outcome))

\* df_combo[df_combo.bidder_id.isin(sample.bidder_id)]
TestSplit(df, template) ==
    SelectSeq(df, LAMBDA r : r.bidder_id \in Range(Column(template, "bidder_id")))

\* df_combo[~pd.isnull(df_combo.outcome)]
TrainSplit(df) == SelectSeq(df, LAMBDA r : ~IsNaN(r.outcome))

\* df[num_cols].values
NumMatrix(df) == [i \in DOMAIN df |-> [j \in DOMAIN num_cols |-> df[i][num_cols[j]]]]

\* ------------------------------------------------------- cell 15: scaling
RMul(a, b) == Rat(a.n * b.n, a.d * b.d)

RInv(a) == IF a.n < 0 THEN [n |-> 0 - a.d, d |-> 0 - a.n] ELSE [n |-> a.d, d |-> a.n]

HasNaN(X) == \E i \in DOMAIN X : \E j \in DOMAIN X[i] : IsNaN(X[i][j])

FitInputTrainOnly(train, test) == train

\* np.vstack((xtrain, xtest))
FitInput(train, test) == train \o test

\* MinMaxScaler().fit(X): per column data_min, scale_ = 1 / data_range with a
\* zero range replaced by 1, and min_ = 0 - data_min * scale_
MinMaxFit(X) ==
    [j \in DOMAIN num_cols |->
        LET col   == [i \in DOMAIN X |-> X[i][j]]
            lo    == SeqMin(col)
            range == RSub(SeqMax(col), lo)
            scale == IF range.n = 0 THEN Int2Rat(1) ELSE RInv(range)
        IN  [scale_ |-> scale, min_ |-> RSub(Int2Rat(0), RMul(lo, scale))]]

\* sc.transform(X): X * scale_ + min_
MinMaxTransform(scaler, X) ==
    [i \in DOMAIN X |->
        [j \in DOMAIN X[i] |-> RAdd(RMul(X[i][j], scaler[j].scale_), scaler[j].min_)]]

\* ------------------------------------------------ cell 16: sparse matrices
\* sparse.csr_matrix(X) stores the entries of X that are not zero; as a
\* matrix it has the rows and the values of X
csr_matrix(X) == X

\* sparse.hstack((X, T)): the columns of T after the columns of X, row by row
hstack(X, T) == [i \in DOMAIN X |-> X[i] \o T[i]]

\* ----------------------------------------------- cells 17-19: text columns
text_params(col) ==
    CASE col = "address_text"     -> [include |-> FALSE]
      [] col = "account_text"     -> [include |-> FALSE]
      [] col = "auction_text"     -> [include |-> TRUE, mindf |-> 5, ngram |-> <<1, 3>>, token |-> "tokens"]
      [] col = "merchandise_text" -> [include |-> TRUE, mindf |-> 5, ngram |-> <<1, 3>>, token |-> "tokens"]
      [] col = "device_text"      -> [include |-> TRUE, mindf |-> 5, ngram |-> <<1, 3>>, token |-> "tokens"]
      [] col = "timediff_text"    -> [include |-> TRUE, mindf |-> 1, ngram |-> <<1, 1>>, token |-> "tokens"]
      [] col = "country_text"     -> [include |-> TRUE, mindf |-> 5, ngram |-> <<1, 3>>, token |-> "tokens"]
      [] col = "ip_text"          -> [include |-> TRUE, mindf |-> 1, ngram |-> <<1, 1>>, token |-> "nottokens"]
      [] col = "url_text"         -> [include |-> TRUE, mindf |-> 5, ngram |-> <<1, 3>>, token |-> "tokens"]

\* the characters of the model in code point order
Alphabet ==
    <<" ", "-", ".", "0", "1", "2", "3", "4", "5", "6", "7", "8", "9", "A", "B",
      "_", "a", "b", "c", "d", "e", "f", "g", "h", "i", "j", "k", "l", "m", "n",
      "o", "p", "q", "r", "s", "t", "u", "v", "w", "x", "y", "z">>

CharCode(ch) == CHOOSE k \in DOMAIN Alphabet : Alphabet[k] = ch

\* str.lower(), the vectorizer's preprocessing (lowercase = True)
Lower(ch) == CASE ch = "A" -> "a" [] ch = "B" -> "b" [] OTHER -> ch

lowercase(doc) == [i \in DOMAIN doc |-> Lower(doc[i])]

\* the characters that \w does not match
NonWord == {" ", "-", "."}

RECURSIVE WordRuns(_, _)
WordRuns(cur, rest) ==
    IF rest = <<>> THEN <<cur>>
    ELSE IF Head(rest) \in NonWord THEN <<cur>> \o WordRuns(<<>>, Tail(rest))
    ELSE WordRuns(Append(cur, Head(rest)), Tail(rest))

\* the default tokenizer, token_pattern (?u)\b\w\w+\b: the maximal runs of
\* word characters that are two or more characters long
default_tokenizer(doc) == SelectSeq(WordRuns(<<>>, doc), LAMBDA w : Len(w) >= 2)

Min(a, b) == IF a <= b THEN a ELSE b

\* VectorizerMixin._word_ngrams: for max_n = 1 the tokens themselves, else
\* for n = min_n .. min(max_n, number of tokens) the n-grams joined by ' '
word_ngrams(toks, ngram) ==
    IF ngram[2] = 1 THEN toks
    ELSE Flatten([k \in 1..(Min(ngram[2], Len(toks)) - ngram[1] + 1) |->
            [i \in 1..(Len(toks) - (ngram[1] + k - 1) + 1) |->
                JoinStr(<<" ">>, SubSeq(toks, i, i + (ngram[1] + k - 1) - 1))]])

\* build_analyzer(): preprocess, tokenize, n-grams
analyze(col, doc) ==
    word_ngrams(IF text_params(col).token = "tokens"
                   THEN tokens(lowercase(doc))
                   ELSE default_tokenizer(lowercase(doc)),
                text_params(col).ngram)

RECURSIVE StrLess(_, _)
StrLess(s, t) ==
    IF t = <<>> THEN FALSE
    ELSE IF s = <<>> THEN TRUE
    ELSE IF Head(s) = Head(t) THEN StrLess(Tail(s), Tail(t))
    ELSE CharCode(Head(s)) < CharCode(Head(t))

RECURSIVE SortedTerms(_)
SortedTerms(S) ==
    IF S = {} THEN <<>>
    ELSE LET m == CHOOSE t \in S : \A u \in S : u = t \/ StrLess(t, u)
         IN  <<m>> \o SortedTerms(S \ {m})

\* the number of documents a term occurs in
DocFreq(col, documents, term) ==
    Cardinality({i \in DOMAIN documents : term \in Range(analyze(col, documents[i]))})

\* vect.fit(documents): the terms of the documents that occur in at least
\* min_df documents, in sorted order; <<>> is the vocabulary fit() raises on
\* ("empty vocabulary", "After pruning, no terms remain")
Vocabulary(col, documents) ==
    LET terms == UNION {Range(analyze(col, documents[i])) : i \in DOMAIN documents}
    IN  SortedTerms({t \in terms : DocFreq(col, documents, t) >= text_params(col).mindf})

\* vect.transform(documents): one column per term of the vocabulary.  The
\* entry of a row is its tf-idf weight, which is positive exactly when the
\* term occurs in the row's document; the model keeps the number of
\* occurrences in its place.
Transform(col, vocabulary, documents) ==
    [i \in DOMAIN documents |->
        [j \in DOMAIN vocabulary |->
            Int2Rat(Len(SelectSeq(analyze(col, documents[i]),
                                  LAMBDA t : t = vocabulary[j])))]]

\* ------------------------------------------------- cell 20: the selection
percentile == 25

\* what _clean_nans puts in the place of a NaN score (the smallest float):
\* a value below every score
FloatMin == [n |-> 0 - 1000, d |-> 1]

clean_nans(scores) == [j \in DOMAIN scores |-> IF IsNaN(scores[j]) THEN FloatMin ELSE scores[j]]

\* scipy.stats.scoreatpercentile(scores, per): the value at position
\* per/100 * (n - 1) of the sorted scores, interpolated linearly
scoreatpercentile(scores, per) ==
    LET sorted == SortRat(scores)
        pos == per * (Len(scores) - 1)
        i == pos \div 100
    IN  IF pos % 100 = 0 THEN sorted[i + 1]
        ELSE RAdd(sorted[i + 1],
                  RMul(RSub(sorted[i + 2], sorted[i + 1]), Rat(pos % 100, 100)))

\* a[:k]
SliceTo(a, k) ==
    IF k >= 0 THEN SubSeq(a, 1, Min(k, Len(a)))
    ELSE SubSeq(a, 1, Len(a) + k)

KeepAllTies(ties, k) == ties

\* ties[:max_feats - mask.sum()]
KeptTies(ties, k) == SliceTo(ties, k)

\* SelectPercentile._get_support_mask: the indices of the selected columns
get_support(scores_) ==
    LET scores == clean_nans(scores_)
        treshold == scoreatpercentile(scores, 100 - percentile)
        mask == {j \in DOMAIN scores : ~RLeq(scores[j], treshold)}
        ties == SelectSeq([j \in DOMAIN scores |-> j], LAMBDA j : scores[j] = treshold)
        max_feats == (Len(scores) * percentile) \div 100
    IN  mask \cup Range(KeptTies(ties, max_feats - Cardinality(mask)))

\* feats_25.transform(X): the selected columns in their order
SelectColumns(support, X) ==
    LET idx == SelectSeq([j \in 1..Len(X[1]) |-> j], LAMBDA j : j \in support)
    IN  [i \in DOMAIN X |-> [k \in DOMAIN idx |-> X[i][idx[k]]]]

\* chi2(X, y) is computed by the library from X and y; the model leaves the
\* scores open and draws them from these shapes: all equal, all different
\* (rising or falling with the column index), two or three levels, and the
\* rising scores with a NaN on every other column
ScoreShapes == {"equal", "rising", "falling", "two", "three", "nan"}

chi2(shape, n) ==
    [j \in 1..n |->
        CASE shape = "equal"   -> Int2Rat(0)
          [] shape = "rising"  -> Int2Rat(j)
          [] shape = "falling" -> Int2Rat(n - j)
          [] shape = "two"     -> Int2Rat(j % 2)
          [] shape = "three"   -> Int2Rat(j % 3)
          [] shape = "nan"     -> IF j % 2 = 0 THEN NaN ELSE Int2Rat(j)]

\* ------------------------------------------------- cell 20: the classifier
rounds == 15

\* clf.fit(X, y) with a given seed is a function of X, y and the seed, and
\* predict_proba(X)[:, 1] gives every row a probability.  The model leaves
\* the learned function open and draws it from these rules.
Rules == {"half", "first", "count"}

Clamp(v) == IF RLeq(Int2Rat(0), v) /\ RLeq(v, Int2Rat(1)) THEN v ELSE Int2Rat(1)

Proba(rule, seed, row) ==
    CASE rule = "half"  -> Rat(1, 2)
      [] rule = "first" -> IF seed % 2 = 0 THEN Clamp(row[1]) ELSE Clamp(row[Len(row)])
      [] rule = "count" ->
            Rat((Cardinality({j \in DOMAIN row : row[j].n # 0}) * seed) % 3, 2)

predict_proba(classifier, X) ==
    [i \in DOMAIN X |-> Proba(classifier.rule, classifier.seed, X[i])]

\* np.zeros((rows, cols))
zeros(rows, cols) == [i \in 1..rows |-> [j \in 1..cols |-> Int2Rat(0)]]

\* preds_mat[:, i] = preds_tmp, i counted from 0
SetMatColumn(mat, i, col) ==
    [k \in DOMAIN mat |->
        [mat[k] EXCEPT ![i + 1] = IF Len(col) = 1 THEN col[1] ELSE col[k]]]

\* preds_mat.mean(axis = 1)
RowMeans(mat) == [k \in DOMAIN mat |-> RDivInt(SeqSum(mat[k]), Len(mat[k]))]

\* sample.prediction = bagged_preds
SetPrediction(frame, preds) ==
    [k \in DOMAIN frame |-> [frame[k] EXCEPT !.prediction = preds[k]]]

\* ------------------------------------------------------------------ inputs
Times == 1..MaxTime

\* the raw values of the six category columns of one bid: with a space in
\* them, or without and with a missing country
RowKinds ==
    { [c \in RawCols |-> IF c = "country" THEN NA ELSE <<"b">>],
      [c \in RawCols |-> <<"a", " ", "b">>] }

MakeBid(b, t, k) == k @@ [bidder_id |-> b, time |-> t]

\* the bids of the aggregation: actor 1 bids at any time, actor 2 at time 1
BidRows ==
    {MakeBid(1, t, k) : t \in Times, k \in RowKinds}
        \cup {MakeBid(2, 1, [c \in RawCols |-> <<"a">>])}

BidLogs == UNION {[1..n -> BidRows] : n \in 1..MaxBids}

TimeSeqs(n) == UNION {[1..k -> Times] : k \in 0..n}

StatRows(b, ts) ==
    [i \in DOMAIN ts |-> MakeBid(b, ts[i], [c \in RawCols |-> <<"a">>])]

\* logs of three bidders for the statistics: bidder 1 with up to StatMaxPer
\* bids, bidder 2 with up to two, bidder 3 with up to one
StatLogs ==
    {StatRows(1, a) \o StatRows(2, b) \o StatRows(3, c) :
        a \in TimeSeqs(StatMaxPer), b \in TimeSeqs(2), c \in TimeSeqs(1)} \ {<<>>}

\* the logs of the join: bidder 1 with up to JoinMaxPer bids, bidder 2 with up
\* to one, not both without any
JoinLogs ==
    {StatRows(1, a) \o StatRows(2, b) :
        a \in TimeSeqs(JoinMaxPer), b \in TimeSeqs(1)} \ {<<>>}

\* the rosters and the template list actors 1, 2, 3; actor 3 never bids
RosterIds == {1, 2, 3}

InjSeqs(S) ==
    {q \in UNION {[1..n -> S] : n \in 0..Cardinality(S)} :
        \A i, j \in DOMAIN q : i # j => q[i] # q[j]}

Outcome(b) == Int2Rat(b % 2)

TrainRoster(ids) ==
    [i \in DOMAIN ids |->
        [bidder_id |-> ids[i], payment_account |-> <<"p">>, address |-> NA,
         outcome |-> Outcome(ids[i])]]

TestRoster(ids) ==
    [i \in DOMAIN ids |->
        [bidder_id |-> ids[i], payment_account |-> NA, address |-> <<"q">>]]

Template(ids) ==
    [i \in DOMAIN ids |-> [bidder_id |-> ids[i], prediction |-> Int2Rat(0)]]

Templates == InjSeqs(RosterIds)

\* a labeled roster that is not empty and an unlabeled one, no actor in both
RosterPairs ==
    {p \in InjSeqs(RosterIds) \X InjSeqs(RosterIds) :
        p[1] # <<>> /\ Range(p[1]) \cap Range(p[2]) = {}}

\* the inputs of the whole run: actor 1 with one to RunMaxPer bids, actor 2
\* with at most one, and actors 3 to 7 either all without bids or all with the
\* same single bid; the values differ in case and in punctuation
RunKinds ==
    { [c \in RawCols |-> <<"a">>],
      [c \in RawCols |-> IF c = "ip" THEN <<"b", ".", "c", "d">> ELSE <<"A">>] }

KindSeqs(lo, hi) == UNION {[1..n -> RunKinds] : n \in lo..hi}

RunRows(b, ks) == [i \in DOMAIN ks |-> MakeBid(b, i, ks[i])]

Crowd == <<3, 4, 5, 6, 7>>

CrowdRows(ks) == Flatten([i \in DOMAIN Crowd |-> RunRows(Crowd[i], ks)])

RunLogs ==
    {RunRows(1, a) \o RunRows(2, b) \o CrowdRows(c) :
        a \in KindSeqs(1, RunMaxPer), b \in KindSeqs(0, 1),
        c \in {<<>>, <<[k \in RawCols |-> <<"a">>]>>}}

RunRosterPairs == { <<<<1, 3, 4>>, <<2, 5, 6, 7>>>>, <<<<4, 1>>, <<5, 6, 2, 3>>>> }

\* the templates for an unlabeled roster: the roster itself, the roster with
\* its first two actors exchanged, the roster with its first actor replaced by
\* a labeled one, and the roster followed by an actor of neither roster
RunTemplates(ids) ==
    { ids,
      <<ids[2], ids[1]>> \o SubSeq(ids, 3, Len(ids)),
      Append(Tail(ids), 1),
      Append(ids, 9) }

\* ----------------------------------------------------------------- actions
JoinUnset ==
    /\ df_combo = <<>> /\ sample = <<>> /\ test_dat = <<>> /\ printed = "nothing"
    /\ train_dat = <<>> /\ y = <<>> /\ xtrain = <<>> /\ xtest = <<>> /\ sc = <<>>
    /\ feats_25 = <<>> /\ clf = <<>> /\ preds_mat = <<>> /\ fit_calls = <<>>
    /\ submission = <<>> /\ to_csv_calls = 0

InitAgg ==
    /\ bids_csv \in BidLogs
    /\ train_csv = <<>> /\ test_csv = <<>> /\ sample_csv = <<>>
    /\ df_bids = bids_csv
    /\ df_bids_sorted = <<>>
    /\ bids = <<>>
    /\ JoinUnset
    /\ loop_i = 0
    /\ pc = "replace_spaces"

InitStat ==
    /\ bids_csv \in StatLogs
    /\ train_csv = <<>> /\ test_csv = <<>> /\ sample_csv = <<>>
    /\ df_bids = bids_csv
    /\ df_bids_sorted = <<>>
    /\ bids = <<>>
    /\ JoinUnset
    /\ loop_i = 0
    /\ pc = "replace_spaces"

\* cell 3 (line 73)
CellReplaceSpaces ==
    /\ pc = "replace_spaces"
    /\ df_bids' = ReplaceSpaces(df_bids)
    /\ pc' = "sort"
    /\ UNCHANGED <<loop_i, files, df_bids_sorted, bids, joinVars, modelVars>>

\* cell 4 (line 91)
CellSort ==
    /\ pc = "sort"
    /\ df_bids_sorted' = SortBids(df_bids)
    /\ pc' = "init_bids"
    /\ UNCHANGED <<loop_i, files, df_bids, bids, joinVars, modelVars>>

\* cell 5 (lines 110-111)
CellInitBids ==
    /\ pc = "init_bids"
    /\ bids' = InitBidsFrame(df_bids_sorted)
    /\ pc' = "counts"
    /\ UNCHANGED <<loop_i, files, df_bids, df_bids_sorted, joinVars, modelVars>>

\* cell 6 (lines 130-131)
CellCounts ==
    /\ pc = "counts"
    /\ bids' = SetColumn(bids, "auction_count_num",
                         [b \in BidderSet(df_bids_sorted) |->
                             AuctionCount(df_bids_sorted, b)])
    /\ pc' = "timediff"
    /\ UNCHANGED <<loop_i, files, df_bids, df_bids_sorted, joinVars, modelVars>>

\* cell 7 (lines 149-152)
CellTimeDiff ==
    /\ pc = "timediff"
    /\ df_bids_sorted' = AddTimeDiff(df_bids_sorted)
    /\ pc' = "text_loop"
    /\ loop_i' = 1
    /\ UNCHANGED <<files, df_bids, bids, joinVars, modelVars>>

\* cell 8, one iteration of the loop over text_cols (lines 174-179)
CellTextLoop ==
    /\ pc = "text_loop"
    /\ LET var == text_cols[loop_i]
           tagged == TagColumn(df_bids_sorted, var)
       IN  /\ df_bids_sorted' = tagged
           /\ bids' = AggregateColumn(bids, tagged, var)
    /\ IF loop_i < Len(text_cols)
          THEN /\ loop_i' = loop_i + 1
               /\ pc' = pc
          ELSE /\ loop_i' = 0
               /\ pc' = "diff_stats"
    /\ UNCHANGED <<files, df_bids, joinVars, modelVars>>

\* cell 9, lines 197-214
CellDiffStats ==
    /\ pc = "diff_stats"
    /\ bids' = DiffStats(bids, df_bids_sorted)
    /\ pc' = "quantile_loop"
    /\ loop_i' = 1
    /\ UNCHANGED <<files, df_bids, df_bids_sorted, joinVars, modelVars>>

\* cell 9, one iteration of the loop over q (lines 215-219)
CellQuantileLoop ==
    /\ pc = "quantile_loop"
    /\ bids' = SetSeries(bids, q_string(quantiles[loop_i]), df_bids_sorted,
                         q_temp(df_bids_sorted, quantiles[loop_i]))
    /\ IF loop_i < Len(quantiles)
          THEN /\ loop_i' = loop_i + 1
               /\ pc' = pc
          ELSE /\ loop_i' = 0
               /\ pc' = "agg_done"
    /\ UNCHANGED <<files, df_bids, df_bids_sorted, joinVars, modelVars>>

NextAgg ==
    \/ CellReplaceSpaces
    \/ CellSort
    \/ CellInitBids
    \/ CellCounts
    \/ CellTimeDiff
    \/ CellTextLoop
    \/ CellDiffStats
    \/ CellQuantileLoop

SpecAgg == InitAgg /\ [][NextAgg]_vars

SpecStat == InitStat /\ [][NextAgg]_vars

\* the state after cell 9
InitJoin ==
    /\ bids_csv \in JoinLogs
    /\ df_bids = ReplaceSpaces(bids_csv)
    /\ df_bids_sorted = TextLoopFrame(AddTimeDiff(SortBids(df_bids)))
    /\ bids = BidsOf(bids_csv)
    /\ train_csv = <<>> /\ test_csv = <<>> /\ sample_csv = <<>>
    /\ JoinUnset
    /\ loop_i = 0
    /\ pc = "agg_done"

\* cell 10 (lines 237-242); the two rosters are read here
CellJoinOf(pairs) ==
    /\ pc = "agg_done"
    /\ \E p \in pairs :
          /\ train_csv' = TrainRoster(p[1])
          /\ test_csv' = TestRoster(p[2])
    /\ df_combo' = MergeLeft(AddRosterText(AppendRosters(train_csv', test_csv')), bids)
    /\ pc' = "impute"
    /\ UNCHANGED <<loop_i, bids_csv, sample_csv, aggVars, sample, test_dat, printed,
                   train_dat, y, xtrain, xtest, sc, modelVars>>

\* cells 11 and 12 (lines 260-265, 283-288)
CellImpute ==
    /\ pc = "impute"
    /\ df_combo' = Impute(df_combo)
    /\ df_bids' = <<>> /\ df_bids_sorted' = <<>> /\ bids' = <<>>
    /\ pc' = "test_split"
    /\ UNCHANGED <<loop_i, files, sample, test_dat, printed, train_dat, y,
                   xtrain, xtest, sc, modelVars>>

\* cell 13 (lines 314-317); the template is read here.  Arrays of different lengths do not compare
\* element by element: the comparison is then the single value False, which
\* has no .all(), and the cell raises after test_dat is bound; whether the run
\* goes on after that is the notebook user's choice.
CellTestSplitOf(templates) ==
    /\ pc = "test_split"
    /\ \E t \in templates : sample_csv' = Template(t)
    /\ sample' = sample_csv'
    /\ test_dat' = TestSplit(df_combo, sample')
    /\ IF Len(sample') = Len(test_dat')
          THEN /\ printed' = IF Column(sample', "bidder_id") = Column(test_dat', "bidder_id")
                                THEN "True" ELSE "False"
               /\ pc' = "train_split"
          ELSE /\ printed' = "AttributeError"
               /\ pc' \in {"train_split", "aborted"}
    /\ UNCHANGED <<loop_i, bids_csv, train_csv, test_csv, aggVars, df_combo, train_dat,
                   y, xtrain, xtest, sc, modelVars>>

\* cell 14 (lines 335-338)
CellTrainSplit ==
    /\ pc = "train_split"
    /\ train_dat' = TrainSplit(df_combo)
    /\ y' = Column(train_dat', "outcome")
    /\ xtrain' = NumMatrix(train_dat')
    /\ xtest' = NumMatrix(test_dat)
    /\ pc' = "scale"
    /\ UNCHANGED <<loop_i, files, aggVars, df_combo, sample, test_dat, printed, sc, modelVars>>

\* cell 15 (lines 356-358): fit and transform validate their input and raise on
\* a NaN entry
CellScale ==
    /\ pc = "scale"
    /\ IF HasNaN(FitInput(xtrain, xtest))
          THEN /\ pc' = "aborted"
               /\ UNCHANGED <<xtrain, xtest, sc>>
          ELSE /\ sc' = MinMaxFit(FitInput(xtrain, xtest))
               /\ xtrain' = MinMaxTransform(sc', xtrain)
               /\ xtest' = MinMaxTransform(sc', xtest)
               /\ pc' = "csr"
    /\ UNCHANGED <<loop_i, files, aggVars, df_combo, sample, test_dat, printed,
                   train_dat, y, modelVars>>

CellJoin == CellJoinOf(RosterPairs)

CellTestSplit == CellTestSplitOf(Templates)

NextJoin ==
    \/ CellJoin
    \/ CellImpute
    \/ CellTestSplit
    \/ CellTrainSplit
    \/ CellScale

SpecJoin == InitJoin /\ [][NextJoin]_vars

\* the state after cell 9 of a whole run
Init ==
    /\ bids_csv \in RunLogs
    /\ df_bids = ReplaceSpaces(bids_csv)
    /\ df_bids_sorted = TextLoopFrame(AddTimeDiff(SortBids(df_bids)))
    /\ bids = BidsOf(bids_csv)
    /\ train_csv = <<>> /\ test_csv = <<>> /\ sample_csv = <<>>
    /\ JoinUnset
    /\ loop_i = 0
    /\ pc = "agg_done"

RunJoin == CellJoinOf(RunRosterPairs)

RunTestSplit == CellTestSplitOf(RunTemplates(Column(test_csv, "bidder_id")))

\* cell 16 (lines 376-377)
CellCsr ==
    /\ pc = "csr"
    /\ xtrain' = csr_matrix(xtrain)
    /\ xtest' = csr_matrix(xtest)
    /\ loop_i' = 1
    /\ pc' = "vectorize"
    /\ UNCHANGED <<files, aggVars, df_combo, sample, test_dat, printed, train_dat, y,
                   sc, modelVars>>

\* cell 19, one iteration of the loop over text_cols (lines 448-463); a
\* vectorizer without vocabulary raises
CellVectorize ==
    /\ pc = "vectorize"
    /\ LET col == combo_text_cols[loop_i]
           vocabulary == Vocabulary(col, Column(df_combo, col))
           more == IF loop_i < Len(combo_text_cols)
                      THEN /\ loop_i' = loop_i + 1
                           /\ pc' = pc
                      ELSE /\ loop_i' = 0
                           /\ pc' = "select"
       IN  IF ~text_params(col).include
              THEN /\ more
                   /\ UNCHANGED <<xtrain, xtest>>
           ELSE IF vocabulary = <<>>
              THEN /\ pc' = "aborted"
                   /\ UNCHANGED <<loop_i, xtrain, xtest>>
           ELSE /\ xtrain' = hstack(xtrain, Transform(col, vocabulary, Column(train_dat, col)))
                /\ xtest' = hstack(xtest, Transform(col, vocabulary, Column(test_dat, col)))
                /\ more
    /\ UNCHANGED <<files, aggVars, df_combo, sample, test_dat, printed, train_dat, y,
                   sc, modelVars>>

\* cell 20, lines 483-485
CellSelect ==
    /\ pc = "select"
    /\ \E shape \in ScoreShapes :
          feats_25' = [scores_ |-> chi2(shape, Len(xtrain[1])),
                       support |-> get_support(chi2(shape, Len(xtrain[1])))]
    /\ xtrain' = SelectColumns(feats_25'.support, xtrain)
    /\ xtest' = SelectColumns(feats_25'.support, xtest)
    /\ pc' = "clf"
    /\ UNCHANGED <<loop_i, files, aggVars, df_combo, sample, test_dat, printed,
                   train_dat, y, sc, clf, preds_mat, fit_calls, submission,
                   to_csv_calls>>

\* cell 20, lines 487-500
CellClf ==
    /\ pc = "clf"
    /\ \E rule \in Rules : clf' = [seed |-> 42, rule |-> rule]
    /\ preds_mat' = zeros(Len(sample), rounds)
    /\ loop_i' = 0
    /\ pc' = "bag"
    /\ UNCHANGED <<files, aggVars, joinVars, feats_25, fit_calls, submission,
                   to_csv_calls>>

\* cell 20, one iteration of the loop over range(rounds) (lines 501-505); a
\* column of another length than preds_mat's (and not of length one) does not
\* broadcast, and the assignment raises
CellBag ==
    /\ pc = "bag"
    /\ clf' = [clf EXCEPT !.seed = loop_i + 1]
    /\ fit_calls' = Append(fit_calls, [seed |-> clf'.seed, X |-> xtrain, y |-> y])
    /\ LET preds_tmp == predict_proba(clf', xtest)
       IN  IF Len(preds_tmp) = Len(preds_mat) \/ Len(preds_tmp) = 1
              THEN /\ preds_mat' = SetMatColumn(preds_mat, loop_i, preds_tmp)
                   /\ loop_i' = loop_i + 1
                   /\ pc' = IF loop_i + 1 < rounds THEN "bag" ELSE "write"
              ELSE /\ pc' = "aborted"
                   /\ UNCHANGED <<loop_i, preds_mat>>
    /\ UNCHANGED <<files, aggVars, joinVars, feats_25, submission, to_csv_calls>>

\* cell 20, lines 506-508
CellWrite ==
    /\ pc = "write"
    /\ sample' = SetPrediction(sample, RowMeans(preds_mat))
    /\ submission' = sample'
    /\ to_csv_calls' = to_csv_calls + 1
    /\ pc' = "done"
    /\ UNCHANGED <<loop_i, files, aggVars, df_combo, test_dat, printed, train_dat, y,
                   xtrain, xtest, sc, feats_25, clf, preds_mat, fit_calls>>

Next ==
    \/ RunJoin
    \/ CellImpute
    \/ RunTestSplit
    \/ CellTrainSplit
    \/ CellScale
    \/ CellCsr
    \/ CellVectorize
    \/ CellSelect
    \/ CellClf
    \/ CellBag
    \/ CellWrite

Spec == Init /\ [][Next]_vars

\* ======================================================== the properties
\* What the bid log itself says about one actor, read off data/bids.csv
\* without the frames: the positions of the actor's bids, and those positions
\* in ascending timestamp order, equal timestamps in input order.
Actors == {bids_csv[i].bidder_id : i \in DOMAIN bids_csv}

ActorIdx(b) == {i \in DOMAIN bids_csv : bids_csv[i].bidder_id = b}

Earlier(i, j) ==
    \/ bids_csv[i].time < bids_csv[j].time
    \/ bids_csv[i].time = bids_csv[j].time /\ i < j

Chrono(b) ==
    [k \in 1..Cardinality(ActorIdx(b)) |->
        CHOOSE i \in ActorIdx(b) :
            Cardinality({j \in ActorIdx(b) : Earlier(j, i)}) = k - 1]

\* the actor's consecutive-timestamp differences, the missing first one left out
TrueDiffs(b) ==
    LET c == Chrono(b)
    IN  [k \in 1..(Len(c) - 1) |->
            Int2Rat(bids_csv[c[k + 1]].time - bids_csv[c[k]].time)]

ExpectedToken(b, var, k) ==
    LET c == Chrono(b)
    IN  ColChars(var) \o <<"_">> \o
        (IF var = "timediff"
            THEN IF k = 1 THEN <<"n", "a", "n">>
                 ELSE NatStr(bids_csv[c[k]].time - bids_csv[c[k - 1]].time)
                      \o <<".", "0">>
            ELSE IF bids_csv[c[k]][var] = NA THEN <<>>
                 ELSE SelectSeq(bids_csv[c[k]][var], LAMBDA ch : ch # " "))

TextVars(row) == {text_cols[i] : i \in {j \in DOMAIN text_cols :
                                          text_str(text_cols[j]) \in DOMAIN row}}

CountVars(row) == {text_cols[i] : i \in {j \in DOMAIN text_cols :
                                           count_str(text_cols[j]) \in DOMAIN row}}

\* C1: for every actor of the bid log and every designated column, the i-th
\* space-separated token of the actor's fingerprint is the tagged value of the
\* actor's i-th bid in ascending timestamp order, ties in input order; once the
\* aggregation is done every actor has all seven fingerprints.
C1_FingerprintChronological ==
    /\ \A r \in DOMAIN bids : \A var \in TextVars(bids[r]) :
          LET b == bids[r].bidder_id
          IN  tokens(bids[r][text_str(var)]) =
                 [k \in 1..Cardinality(ActorIdx(b)) |-> ExpectedToken(b, var, k)]
    /\ pc = "agg_done" =>
          \A b \in Actors : \E r \in DOMAIN bids :
              /\ bids[r].bidder_id = b
              /\ \A i \in DOMAIN text_cols : text_str(text_cols[i]) \in DOMAIN bids[r]

\* an actor whose input is out of timestamp order and holds two bids of equal
\* timestamp with different devices, aggregated
C1_Witness ==
    /\ pc = "agg_done"
    /\ \E b \in Actors : \E i, j, k \in ActorIdx(b) :
          /\ i < j /\ j < k
          /\ bids_csv[i].time > bids_csv[j].time
          /\ bids_csv[j].time = bids_csv[k].time
          /\ bids_csv[j]["device"] # bids_csv[k]["device"]

\* the distinct non-missing raw values of a column among an actor's bids
RawDistinct(b, var) ==
    IF var = "timediff"
       THEN {TrueDiffs(b)[k] : k \in DOMAIN TrueDiffs(b)}
       ELSE {bids_csv[i][var] : i \in ActorIdx(b)} \ {NA}

\* C2: for every actor and every designated column, <column>_nunique_num is the
\* number of distinct non-missing raw values of the column among the actor's bids.
C2_NuniqueIsDistinctRaw ==
    \A r \in DOMAIN bids : \A var \in CountVars(bids[r]) :
        bids[r][count_str(var)] =
            Int2Rat(Cardinality(RawDistinct(bids[r].bidder_id, var)))

HasCol(col) == \A r \in DOMAIN bids : col \in DOMAIN bids[r]

\* C3: for every actor with at least 2 bids, mindiff_num is the minimum and
\* maxdiff_num the maximum of the actor's valid consecutive-timestamp
\* differences, and rangediff_num is that maximum minus that minimum.
C3_MinMaxRangeOfDiffs ==
    HasCol("rangediff_num") =>
        \A r \in DOMAIN bids :
            LET d == TrueDiffs(bids[r].bidder_id)
            IN  Len(d) >= 1 =>
                   /\ bids[r]["mindiff_num"] = SeqMin(d)
                   /\ bids[r]["maxdiff_num"] = SeqMax(d)
                   /\ bids[r]["rangediff_num"] = RSub(SeqMax(d), SeqMin(d))

\* the statistic of each actor's own valid differences, NaN without any
TrueStat(col, b) ==
    LET d == TrueDiffs(b)
    IN  CASE col = "mindiff_num"    -> SeqMin(d)
          [] col = "maxdiff_num"    -> SeqMax(d)
          [] col = "meandiff_num"   -> SeriesMean(d)
          [] col = "mediandiff_num" -> SeqQuantile(d, 5)
          [] OTHER -> SeqQuantile(d, CHOOSE k \in 1..9 : k # 5 /\ q_string(k) = col)

StatCols ==
    {"mindiff_num", "maxdiff_num", "meandiff_num", "mediandiff_num"}
        \cup {q_string(quantiles[i]) : i \in DOMAIN quantiles}

\* the mean of a statistic over the actors that have at least one valid difference
PopulationMean(col) ==
    LET have == {b \in Actors : Len(TrueDiffs(b)) >= 1}
        order == CHOOSE f \in [1..Cardinality(have) -> have] :
                     \A i, j \in DOMAIN f : i # j => f[i] # f[j]
    IN  SeriesMean([i \in DOMAIN order |-> TrueStat(col, order[i])])

\* C7: an actor with fewer than 2 bids gets, for every diff statistic, the mean
\* of that statistic over the actors with at least one valid difference; the
\* other actors keep their own value of the statistic.
C7_FillWithPopulationMean ==
    \A r \in DOMAIN bids : \A col \in StatCols \cap DOMAIN bids[r] :
        LET b == bids[r].bidder_id
        IN  bids[r][col] = IF Len(TrueDiffs(b)) >= 1 THEN TrueStat(col, b)
                           ELSE PopulationMean(col)

\* ------------------------------------------------------ join and split
Ids(frame) == Column(frame, "bidder_id")

SplitDone == y # <<>>

Labeled(i) == ~IsNaN(df_combo[i].outcome)

InTemplate(i) == df_combo[i].bidder_id \in Range(Ids(sample))

\* the two partitions have the rosters' sizes and every joined row is in
\* exactly one of them
RoundTrip ==
    /\ Len(train_dat) = Len(train_csv)
    /\ Len(test_dat) = Len(test_csv)
    /\ \A i \in DOMAIN df_combo : Labeled(i) # InTemplate(i)

\* C4 as claimed: after the join, the split (label present = train, label
\* absent = test) gives partitions of the rosters' sizes, every joined row in
\* exactly one of them.
C4_SplitByLabelRoundTrip == SplitDone => RoundTrip

\* C4 as amended: the join yields one row per roster row in roster order; the
\* train partition is the rows with a label, as many as the labeled roster;
\* the test partition is the rows whose bidder_id occurs in the template, and
\* it has the unlabeled roster's size with every row in exactly one partition
\* exactly when the template selects exactly the rows without label.
C4_SplitByTemplate ==
    /\ df_combo # <<>> => Ids(df_combo) = Ids(train_csv) \o Ids(test_csv)
    /\ SplitDone =>
          /\ Ids(train_dat) = Ids(train_csv)
          /\ \A i \in DOMAIN train_dat : ~IsNaN(train_dat[i].outcome)
          /\ Ids(test_dat) =
                SelectSeq(Ids(train_csv) \o Ids(test_csv),
                          LAMBDA b : b \in Range(Ids(sample_csv)))
          /\ RoundTrip <=>
                (\A i \in DOMAIN df_combo : InTemplate(i) <=> ~Labeled(i))

\* a split that reproduces both rosters, one of them with an actor without bids
C4_Witness ==
    /\ SplitDone
    /\ RoundTrip
    /\ Len(test_csv) >= 1 /\ Len(train_csv) >= 2
    /\ \E i \in DOMAIN df_combo : df_combo[i].bidder_id \notin Actors

\* df_combo as cell 12 leaves it (no later cell assigns to it)
Imputed == pc = "test_split"

ZeroBid(i) == df_combo[i].bidder_id \notin Actors

\* per numeric column, the mean of the aggregated values over the roster rows
\* that have a value
RosterMeansOf(agg) ==
    LET has == SelectSeq(Ids(df_combo), LAMBDA b : b \in Actors)
    IN  [j \in DOMAIN num_cols |->
            SeriesMean([k \in DOMAIN has |->
                (CHOOSE r \in agg : r.bidder_id = has[k])[num_cols[j]]])]

\* the aggregation of the bid log is computed once for all columns
RosterMeans == CHOOSE m \in {RosterMeansOf(agg) : agg \in {Range(BidsOf(bids_csv))}} : TRUE

ZeroBidFilled(means) ==
    \A i \in DOMAIN df_combo : ZeroBid(i) =>
        /\ \A k \in DOMAIN num_cols : df_combo[i][num_cols[k]] = means[k]
        /\ \A k \in DOMAIN text_cols : df_combo[i][text_str(text_cols[k])] = <<>>

NoTextMissing ==
    \A i \in DOMAIN df_combo : \A k \in DOMAIN combo_text_cols :
        df_combo[i][combo_text_cols[k]] # NA

\* C6 as claimed: after join and imputation a roster actor without bids has
\* every numeric feature equal to the column's mean over the roster rows that
\* had a value and every aggregated text feature empty, and no numeric or text
\* feature of any roster row is missing.
C6_ZeroBidImputedNothingMissing ==
    Imputed =>
        \A means \in {RosterMeans} :
            /\ ZeroBidFilled(means)
            /\ NoTextMissing
            /\ \A i \in DOMAIN df_combo : \A k \in DOMAIN num_cols :
                   ~IsNaN(df_combo[i][num_cols[k]])

\* C6 as amended: the same, except that a numeric column is left missing, in
\* every row, exactly when no roster row had a value in it.
C6_ZeroBidImputed ==
    Imputed =>
        \A means \in {RosterMeans} :
            /\ ZeroBidFilled(means)
            /\ NoTextMissing
            /\ \A i \in DOMAIN df_combo : \A k \in DOMAIN num_cols :
                   IsNaN(df_combo[i][num_cols[k]]) <=> IsNaN(means[k])

\* an actor without bids next to two roster actors with different bid counts,
\* and a diff statistic to take the mean of
C6_Witness ==
    /\ Imputed
    /\ \E i, j, k \in DOMAIN df_combo :
          /\ ZeroBid(i) /\ ~ZeroBid(j) /\ ~ZeroBid(k)
          /\ df_combo[j]["auction_count_num"] # df_combo[k]["auction_count_num"]
          /\ df_combo[i]["auction_count_num"] # df_combo[j]["auction_count_num"]
          /\ ~IsNaN(df_combo[i]["maxdiff_num"])

InUnit(v) == RLeq(Int2Rat(0), v) /\ RLeq(v, Int2Rat(1))

\* C8: after min-max scaling every numeric feature of every row of the train
\* and of the test partition lies in [0, 1].
C8_ScaledInUnitInterval ==
    sc # <<>> =>
        /\ \A i \in DOMAIN xtrain : \A j \in DOMAIN xtrain[i] : InUnit(xtrain[i][j])
        /\ \A i \in DOMAIN xtest : \A j \in DOMAIN xtest[i] : InUnit(xtest[i][j])

\* a scaled column whose maximum is reached by a test row only and whose train
\* rows hold a value strictly inside the interval
C8_Witness ==
    /\ sc # <<>>
    /\ \E j \in DOMAIN num_cols :
          /\ \E i \in DOMAIN xtest : xtest[i][j] = Int2Rat(1)
          /\ \A i \in DOMAIN xtrain : xtrain[i][j] # Int2Rat(1)
          /\ \E i \in DOMAIN xtrain : xtrain[i][j] # Int2Rat(0)

\* ---------------------------------------------------------------- the run
\* cell 13 has run
Compared == printed # "nothing"

OrderMismatch == Ids(sample_csv) # Ids(test_dat)

\* row r of preds_mat holds the probabilities of row r of xtest, which is the
\* actor of row r of test_dat
MeanFor(r) == RDivInt(SeqSum(preds_mat[r]), rounds)

\* every written row pairs its actor with the mean computed for that actor
PairedByActor ==
    \A k \in DOMAIN submission :
        \E r \in DOMAIN test_dat :
            /\ r \in DOMAIN preds_mat
            /\ test_dat[r].bidder_id = submission[k].bidder_id
            /\ submission[k].prediction = MeanFor(r)

\* C5: when the bidder_id sequence of the test partition differs from the
\* template's, the run is aborted: no classifier is fit and no output file is
\* written; so every written row pairs a template actor with the prediction
\* computed for that same actor.
C5_MismatchAborts ==
    /\ (Compared /\ OrderMismatch) => (fit_calls = <<>> /\ to_csv_calls = 0)
    /\ to_csv_calls > 0 =>
          /\ Ids(submission) = Ids(sample_csv)
          /\ PairedByActor

\* C10: the run fits 15 times, with the seeds 1..15 in turn and each time on
\* the selected train matrix and the label vector; the file is written at most
\* once and only after the 15 fits; and each written prediction is the mean of
\* the 15 probabilities predicted for that row's actor, which lies in [0, 1].
C10_FifteenFitsMeanWrittenOnce ==
    /\ Len(fit_calls) <= rounds
    /\ \A i \in DOMAIN fit_calls :
          /\ fit_calls[i].seed = i
          /\ pc # "select" /\ pc # "clf" => fit_calls[i].X = xtrain /\ fit_calls[i].y = y
    /\ to_csv_calls <= 1
    /\ pc = "write" => Len(fit_calls) = rounds
    /\ pc = "done" <=> to_csv_calls = 1
    /\ to_csv_calls = 1 =>
          /\ Len(fit_calls) = rounds
          /\ \A k \in DOMAIN submission : InUnit(submission[k].prediction)
          /\ PairedByActor

\* ---------------------------------------------------------- the selection
SelectStep == pc = "select" /\ pc' = "clf"

CeilDiv(a, b) == (a + b - 1) \div b

\* the k-th smallest element of a set of indices
Kth(S, k) == CHOOSE j \in S : Cardinality({m \in S : m < j}) = k - 1

\* the matrix after consists of the columns S of the matrix before, in order
IsColumnPick(before, after, S) ==
    /\ DOMAIN after = DOMAIN before
    /\ \A i \in DOMAIN after :
          /\ Len(after[i]) = Cardinality(S)
          /\ \A k \in 1..Cardinality(S) : after[i][k] = before[i][Kth(S, k)]

\* the selector keeps columns of the scored matrix, none of them scored below
\* a column it drops, and both matrices are cut to the kept columns
PicksTop(S) ==
    /\ S \subseteq 1..Len(xtrain[1])
    /\ Len(feats_25'.scores_) = Len(xtrain[1])
    /\ \A j \in S : \A m \in (1..Len(xtrain[1])) \ S :
          RLeq(clean_nans(feats_25'.scores_)[m], clean_nans(feats_25'.scores_)[j])
    /\ IsColumnPick(xtrain, xtrain', S)
    /\ IsColumnPick(xtest, xtest', S)

\* the two scores next to the 75th-percentile position of the sorted scores,
\* when that position falls between two of them, are equal
CutTie(scores) ==
    LET sorted == SortRat(clean_nans(scores))
        pos == (100 - percentile) * (Len(scores) - 1)
    IN  pos % 100 # 0 /\ sorted[(pos \div 100) + 1] = sorted[(pos \div 100) + 2]

\* C9 as claimed: the selection keeps exactly ceil(25% of n) of the n columns
\* of the combined matrix, and the train and the test matrix after it are the
\* same columns of the matrices before it, in the same order.
C9_KeepsCeilQuarter ==
    [][SelectStep =>
          /\ Cardinality(feats_25'.support) = CeilDiv(percentile * Len(xtrain[1]), 100)
          /\ PicksTop(feats_25'.support)]_vars

\* C9 as amended: the selection keeps ceil(25% of n) of the n columns, except
\* that it keeps floor(25% of n) when n leaves the remainder 1 on division by
\* 4 or when the two scores next to the 75th-percentile position are equal;
\* the kept columns are scored at least as high as the dropped ones, and the
\* train and the test matrix after it are the same columns of the matrices
\* before it, in the same order.
C9_KeepsQuarter ==
    [][SelectStep =>
          LET n == Len(xtrain[1])
              kept == Cardinality(feats_25'.support)
          IN  /\ kept = IF n % 4 = 1 \/ CutTie(feats_25'.scores_)
                           THEN (percentile * n) \div 100
                           ELSE CeilDiv(percentile * n, 100)
              /\ PicksTop(feats_25'.support)]_vars

\* a selection among a number of columns that leaves 1 on division by 4, with
\* equal scores on both sides of the cut, applied to both matrices
C9_Witness ==
    /\ pc = "clf"
    /\ Len(feats_25.scores_) % 4 = 1
    /\ Cardinality(feats_25.support) = Len(feats_25.scores_) \div 4
    /\ \E j \in feats_25.support : \E m \in DOMAIN feats_25.scores_ \ feats_25.support :
          feats_25.scores_[j] = feats_25.scores_[m]
    /\ Len(xtrain[1]) = Cardinality(feats_25.support)
    /\ Len(xtest[1]) = Cardinality(feats_25.support)

\* ------------------------------------------------------------- the tokens
Prefix(var) == ColChars(var) \o <<"_">>

StartsWith(tok, pre) == Len(tok) >= Len(pre) /\ SubSeq(tok, 1, Len(pre)) = pre

\* C11: for every actor of the bid log and every designated column, splitting
\* the actor's fingerprint on single spaces gives as many tokens as the actor
\* has bids, which is the actor's auction_count_num, and every token starts
\* with the column's tag followed by '_'.
C11_OneTokenPerBid ==
    \A r \in DOMAIN bids : \A var \in TextVars(bids[r]) :
        LET toks == tokens(bids[r][text_str(var)])
        IN  /\ "auction_count_num" \in DOMAIN bids[r]
            /\ bids[r]["auction_count_num"] = Int2Rat(Len(toks))
            /\ Len(toks) = Cardinality(ActorIdx(bids[r].bidder_id))
            /\ \A k \in DOMAIN toks : StartsWith(toks[k], Prefix(var))

\* an aggregated actor with two bids, one with a space inside its values and
\* one with a missing country, next to another actor
C11_Witness ==
    /\ pc = "agg_done"
    /\ Cardinality(Actors) = 2
    /\ \E b \in Actors : \E i, j \in ActorIdx(b) :
          /\ Cardinality(ActorIdx(b)) = 2
          /\ " " \in Range(bids_csv[i]["device"])
          /\ bids_csv[j]["country"] = NA
          /\ \E r \in DOMAIN bids :
                /\ bids[r].bidder_id = b
                /\ tokens(bids[r]["country_text"])[Cardinality({m \in ActorIdx(b) : Earlier(m, j)}) + 1]
                      = Prefix("country")

====
